---- MODULE Spec2Model ----
(***************************************************************************)
(* Model of genetic_coordinates/cigar_translate.py: the CIGAR parser       *)
(* (cigar_to_operators), the transcript length (get_length), the index map *)
(* builder (make_index_map), the coordinate translator                     *)
(* (translate_coordinate) and the batch loop (main); and of                 *)
(* variant_annotation/hgvs_annotations.py: the key search (find_my_keys),  *)
(* the transform of one annotation (transform_ensembl_annotations) and the *)
(* TSV writer (make_transformed_annotations_tsv).                          *)
(*                                                                         *)
(* A string is a sequence of one-character strings.  The value None of the *)
(* translator is the empty sequence and an integer result v is <<v>>.      *)
(***************************************************************************)
EXTENDS Integers, Sequences, FiniteSets, TLC

VARIABLES
    pc,                    \* position of the control flow
    cigar,                 \* the CIGAR string handed to get_length / make_index_map
    transcript_length,     \* Transcript.transcript_length = get_length(cigar)
    re_cigar,              \* make_index_map: the parsed operators
    k,                     \* make_index_map: number of operators the loop has consumed
    ref_size,              \* make_index_map: reference counter
    trans_size,            \* make_index_map: transcript counter
    transcript_index_map,  \* make_index_map: the list under construction
    index_map,             \* Transcript.index_map, the translator's argument
    ref_start,             \* translate_coordinate: argument
    coordinate_query,      \* translate_coordinate: argument
    ref_coord,             \* translate_coordinate: returned value
    transcripts,           \* main: rows of the transcripts file
    done_transcripts,      \* main: number of transcript rows the loop has consumed
    transcript_alignments, \* main: dict name -> Transcript
    raw_queries,           \* main: rows of the queries file
    done_queries,          \* main: number of query rows the loop has consumed
    query_output,          \* main: rows written to the output file
    error,                 \* main: the exception that ended the run, or "none"
    annotation,            \* transform_ensembl_annotations: argument
    keys_of_interest,      \* transform_ensembl_annotations: argument
    done_keys,             \* transform_ensembl_annotations: number of keys the loop has consumed
    value,                 \* transform_ensembl_annotations: list(find_my_keys(key, annotation))
    decoded_annotation,    \* transform_ensembl_annotations: the dict under construction
    transformed_annotations, \* make_transformed_annotations_tsv: argument
    col_headers,           \* make_transformed_annotations_tsv: argument
    sorted_queries,        \* make_transformed_annotations_tsv: the sorted keys
    done_rows,             \* make_transformed_annotations_tsv: number of queries the loop has consumed
    output_table           \* make_transformed_annotations_tsv: rows handed to the csv writer

coreVars == <<pc, cigar, transcript_length, re_cigar, k, ref_size, trans_size,
              transcript_index_map, index_map, ref_start, coordinate_query, ref_coord>>
mainVars == <<transcripts, done_transcripts, transcript_alignments, raw_queries, done_queries,
              query_output, error>>
hgvsVars == <<annotation, keys_of_interest, done_keys, value, decoded_annotation,
              transformed_annotations, col_headers, sorted_queries, done_rows, output_table>>
vars == <<pc, cigar, transcript_length, re_cigar, k, ref_size, trans_size,
          transcript_index_map, index_map, ref_start, coordinate_query, ref_coord,
          transcripts, done_transcripts, transcript_alignments, raw_queries,
          done_queries, query_output, error,
          annotation, keys_of_interest, done_keys, value, decoded_annotation,
          transformed_annotations, col_headers, sorted_queries, done_rows, output_table>>

-----------------------------------------------------------------------------
(* Bounds of the inputs *)

\* total of the operator lengths of a generated well-formed CIGAR string
MaxTotal == 4
\* length of a generated arbitrary character string
MaxRawLen == 4
\* largest reference start position
MaxRefStart == 3

-----------------------------------------------------------------------------
(* sum(...) *)

RECURSIVE SumSeq(_)
SumSeq(s) == IF s = <<>> THEN 0 ELSE Head(s) + SumSeq(Tail(s))

-----------------------------------------------------------------------------
(* cigar_to_operators: re.findall(r'[0-9]+[MIDNSHP=X]', cigar), then       *)
(* (int(c[:-1]), c[-1]) for every match c                                  *)

\* the character class [0-9]
DigitChars == {"0", "1", "2", "3", "4", "5", "6", "7", "8", "9"}

\* the character class [MIDNSHP=X]
OperatorCodes == {"M", "I", "D", "N", "S", "H", "P", "=", "X"}

DigitValue(c) ==
    CASE c = "0" -> 0 [] c = "1" -> 1 [] c = "2" -> 2 [] c = "3" -> 3
      [] c = "4" -> 4 [] c = "5" -> 5 [] c = "6" -> 6 [] c = "7" -> 7
      [] c = "8" -> 8 [] c = "9" -> 9

\* int(text) for a string of decimal digits (leading zeros are accepted)
RECURSIVE IntOfDigits(_)
IntOfDigits(text) ==
    IF text = <<>> THEN 0
    ELSE 10 * IntOfDigits(SubSeq(text, 1, Len(text) - 1)) + DigitValue(text[Len(text)])

\* [0-9]+ is greedy: from position i it consumes digits while there are any;
\* the value is the position of the first character it does not consume
RECURSIVE DigitRunEnd(_, _)
DigitRunEnd(s, i) ==
    IF i <= Len(s) /\ s[i] \in DigitChars THEN DigitRunEnd(s, i + 1) ELSE i

\* FindAll with the pattern [0-9][MIDNSHP=X]: one digit instead of a run
RECURSIVE FindAll_one_digit(_, _)
FindAll_one_digit(s, i) ==
    IF i > Len(s) THEN <<>>
    ELSE IF s[i] \in DigitChars /\ i + 1 <= Len(s) /\ s[i + 1] \in OperatorCodes
         THEN <<SubSeq(s, i, i + 1)>> \o FindAll_one_digit(s, i + 2)
         ELSE FindAll_one_digit(s, i + 1)

\* re.findall scans left to right: at position i it tries the pattern; a
\* match is recorded and the scan resumes after it, a failure moves the scan
\* one character on.  (Giving digits back cannot turn a failure into a
\* match: the character after a shorter run is a digit, not an operator.)
RECURSIVE FindAll(_, _)
FindAll(s, i) ==
    IF i > Len(s) THEN <<>>
    ELSE LET j == DigitRunEnd(s, i)
         IN  IF j > i /\ j <= Len(s) /\ s[j] \in OperatorCodes
             THEN <<SubSeq(s, i, j)>> \o FindAll(s, j + 1)
             ELSE FindAll(s, i + 1)

\* (int(c[:-1]), c[-1])
OperatorOf(c) == <<IntOfDigits(SubSeq(c, 1, Len(c) - 1)), c[Len(c)]>>

cigar_to_operators(s) ==
    LET matches == FindAll(s, 1)
    IN  [n \in 1..Len(matches) |-> OperatorOf(matches[n])]

-----------------------------------------------------------------------------
(* get_length *)

\* LengthTerm that leaves out D and N only, so that H and P count
LengthTerm_counts_clips(o) == IF o[2] \notin {"D", "N"} THEN o[1] ELSE 0

LengthTerm(o) == IF o[2] \notin {"D", "N", "H", "P"} THEN o[1] ELSE 0

get_length(s) ==
    LET re_cigar_ == cigar_to_operators(s)
    IN  SumSeq([n \in 1..Len(re_cigar_) |-> LengthTerm(re_cigar_[n])])

-----------------------------------------------------------------------------
(* make_index_map: the body of the loop over re_cigar, on the local        *)
(* variables st = [map, ref_size, trans_size]                              *)

\* LoopBody that puts a new entry at the front of the list
LoopBody_prepend(st, o) ==
    LET size == o[1]
        code == o[2]
    IN  IF code \in {"M", "=", "X"}
        THEN [st EXCEPT !.ref_size = @ + size, !.trans_size = @ + size]
        ELSE IF code \in {"D", "N"}
        THEN [st EXCEPT !.ref_size = @ + size,
                        !.map = <<<<st.trans_size - 1, size>>>> \o @]
        ELSE IF code \in {"I", "S"}
        THEN [st EXCEPT !.map = <<<<st.trans_size - 1, -size>>>> \o @,
                        !.trans_size = @ + size]
        ELSE st

\* LoopBody that advances trans_size before it anchors an insertion
LoopBody_insert_late(st, o) ==
    LET size == o[1]
        code == o[2]
    IN  IF code \in {"M", "=", "X"}
        THEN [st EXCEPT !.ref_size = @ + size, !.trans_size = @ + size]
        ELSE IF code \in {"D", "N"}
        THEN [st EXCEPT !.ref_size = @ + size,
                        !.map = Append(@, <<st.trans_size - 1, size>>)]
        ELSE IF code \in {"I", "S"}
        THEN [st EXCEPT !.map = Append(@, <<st.trans_size + size - 1, -size>>),
                        !.trans_size = @ + size]
        ELSE st

LoopBody(st, o) ==
    LET size == o[1]
        code == o[2]
    IN  IF code \in {"M", "=", "X"}
        THEN [st EXCEPT !.ref_size = @ + size, !.trans_size = @ + size]
        ELSE IF code \in {"D", "N"}
        THEN [st EXCEPT !.ref_size = @ + size,
                        !.map = Append(@, <<st.trans_size - 1, size>>)]
        ELSE IF code \in {"I", "S"}
        THEN [st EXCEPT !.map = Append(@, <<st.trans_size - 1, -size>>),
                        !.trans_size = @ + size]
        ELSE st

RECURSIVE LoopFrom(_, _)
LoopFrom(st, ops) ==
    IF ops = <<>> THEN st ELSE LoopFrom(LoopBody(st, Head(ops)), Tail(ops))

LoopStart == [map |-> <<>>, ref_size |-> 0, trans_size |-> 0]

make_index_map(s) == LoopFrom(LoopStart, cigar_to_operators(s)).map

-----------------------------------------------------------------------------
(* translate_coordinate *)

None == <<>>
Value(v) == <<v>>

\* MappedAdjusts with >= for >
MappedAdjusts_inclusive(q, im) == SelectSeq(im, LAMBDA a : q >= a[1])

MappedAdjusts(q, im) == SelectSeq(im, LAMBDA a : q > a[1])

Adjustment(a) == a[2]

\* LeftAlign without the correction of lines 173-177
LeftAlign_no_correction(q, mapped_adjusts) == 0

LeftAlign(q, mapped_adjusts) ==
    IF mapped_adjusts # <<>> /\ mapped_adjusts[Len(mapped_adjusts)][2] < 0
    THEN LET last_adjust == mapped_adjusts[Len(mapped_adjusts)]
             diff == last_adjust[1] - q - last_adjust[2]
         IN  IF diff > 0 THEN diff ELSE 0
    ELSE 0

\* the integer an in-range query translates to
Translation(q, im, rs) ==
    LET mapped_adjusts == MappedAdjusts(q, im)
    IN  Value(rs + q
              + SumSeq([n \in 1..Len(mapped_adjusts) |-> Adjustment(mapped_adjusts[n])])
              + LeftAlign(q, mapped_adjusts))

\* translate_coordinate with > for >= in the range check
translate_coordinate_off_by_one(q, im, rs, tlen) ==
    IF q > tlen \/ q < 0 THEN None ELSE Translation(q, im, rs)

translate_coordinate(q, im, rs, tlen) ==
    IF q >= tlen \/ q < 0 THEN None ELSE Translation(q, im, rs)

-----------------------------------------------------------------------------
(* Inputs *)

Digits == <<"0", "1", "2", "3", "4", "5", "6", "7", "8", "9">>

\* the decimal text of a natural number
RECURSIVE ToText(_)
ToText(n) == IF n < 10 THEN <<Digits[n + 1]>> ELSE ToText(n \div 10) \o <<Digits[(n % 10) + 1]>>

\* the operator sequence whose non-zero lengths add up to total and end at
\* the positions cuts \cup {total} of a transcript-or-reference line
NthEnd(ends, n) == CHOOSE e \in ends : Cardinality({x \in ends : x <= e}) = n

OperatorsOf(total, cuts, codes) ==
    LET ends == cuts \cup {total}
    IN  [n \in 1..Cardinality(ends) |->
            <<NthEnd(ends, n) - (IF n = 1 THEN 0 ELSE NthEnd(ends, n - 1)), codes[n]>>]

RECURSIVE Render(_)
Render(ops) ==
    IF ops = <<>> THEN <<>>
    ELSE ToText(Head(ops)[1]) \o <<Head(ops)[2]>> \o Render(Tail(ops))

\* the characters of the arbitrary strings: digits (zero included), operator
\* codes and a character that is neither
RawChars == {"0", "1", "M", "D", "I", "S", "P", "Q"}

RefStarts == {0, MaxRefStart}

-----------------------------------------------------------------------------
(* The construction of one Transcript and the queries against it           *)

MainIdle ==
    /\ transcripts = <<>>
    /\ done_transcripts = 0
    /\ transcript_alignments = <<>>
    /\ raw_queries = <<>>
    /\ done_queries = 0
    /\ query_output = <<>>
    /\ error = "none"

CoreIdle ==
    /\ cigar = <<>>
    /\ transcript_length = 0
    /\ re_cigar = <<>>
    /\ k = 0
    /\ ref_size = 0
    /\ trans_size = 0
    /\ transcript_index_map = <<>>
    /\ index_map = <<>>
    /\ ref_start = 0
    /\ coordinate_query = 0
    /\ ref_coord = None

HgvsIdle ==
    /\ annotation = <<>>
    /\ keys_of_interest = <<>>
    /\ done_keys = 0
    /\ value = <<>>
    /\ decoded_annotation = <<>>
    /\ transformed_annotations = <<>>
    /\ col_headers = <<>>
    /\ sorted_queries = <<>>
    /\ done_rows = 0
    /\ output_table = <<>>

Init ==
    /\ pc = "start"
    /\ CoreIdle
    /\ MainIdle
    /\ HgvsIdle

\* a row of the transcripts file arrives; c is its CIGAR column t[3]
NewTranscript(c) ==
    /\ pc = "start"
    /\ cigar' = c
    /\ pc' = "new"
    /\ UNCHANGED <<transcript_length, re_cigar, k, ref_size, trans_size,
                   transcript_index_map, index_map, ref_start, coordinate_query, ref_coord>>
    /\ UNCHANGED mainVars
    /\ UNCHANGED hgvsVars

\* the CIGAR column is a well-formed CIGAR string (non-zero length and
\* operator code, repeated, the lengths adding up to at most MaxTotal) ...
ReadWellFormed ==
    /\ pc = "start"
    /\ \E total \in 1..MaxTotal :
         \E cuts \in SUBSET (1..(total - 1)) :
             \E codes \in [1..(Cardinality(cuts) + 1) -> OperatorCodes] :
                 NewTranscript(Render(OperatorsOf(total, cuts, codes)))

\* ... or an arbitrary string of at most MaxRawLen characters
ReadRaw ==
    /\ pc = "start"
    /\ \E n \in 0..MaxRawLen : \E c \in [1..n -> RawChars] : NewTranscript(c)

\* transcript_length=get_length(t[3])
GetLength ==
    /\ pc = "new"
    /\ transcript_length' = get_length(cigar)
    /\ pc' = "get_length_done"
    /\ UNCHANGED <<cigar, re_cigar, k, ref_size, trans_size, transcript_index_map,
                   index_map, ref_start, coordinate_query, ref_coord>>
    /\ UNCHANGED mainVars
    /\ UNCHANGED hgvsVars

\* make_index_map, up to the loop
MakeIndexMapStart ==
    /\ pc = "get_length_done"
    /\ re_cigar' = cigar_to_operators(cigar)
    /\ transcript_index_map' = LoopStart.map
    /\ ref_size' = LoopStart.ref_size
    /\ trans_size' = LoopStart.trans_size
    /\ k' = 0
    /\ pc' = "loop"
    /\ UNCHANGED <<cigar, transcript_length, index_map, ref_start, coordinate_query,
                   ref_coord>>
    /\ UNCHANGED mainVars
    /\ UNCHANGED hgvsVars

\* make_index_map, one iteration of the loop
MakeIndexMapLoop ==
    /\ pc = "loop"
    /\ k < Len(re_cigar)
    /\ LET st == LoopBody([map |-> transcript_index_map, ref_size |-> ref_size,
                           trans_size |-> trans_size], re_cigar[k + 1])
       IN  /\ transcript_index_map' = st.map
           /\ ref_size' = st.ref_size
           /\ trans_size' = st.trans_size
    /\ k' = k + 1
    /\ UNCHANGED <<pc, cigar, transcript_length, re_cigar, index_map, ref_start,
                   coordinate_query, ref_coord>>
    /\ UNCHANGED mainVars
    /\ UNCHANGED hgvsVars

\* make_index_map, the return; the list becomes Transcript.index_map
MakeIndexMapReturn ==
    /\ pc = "loop"
    /\ k = Len(re_cigar)
    /\ index_map' = transcript_index_map
    /\ pc' = "ready"
    /\ UNCHANGED <<cigar, transcript_length, re_cigar, k, ref_size, trans_size,
                   transcript_index_map, ref_start, coordinate_query, ref_coord>>
    /\ UNCHANGED mainVars
    /\ UNCHANGED hgvsVars

\* one call of translate_coordinate with the Transcript's map and length
TranslateCoordinate(q, rs) ==
    /\ pc = "ready"
    /\ coordinate_query' = q
    /\ ref_start' = rs
    /\ ref_coord' = translate_coordinate(q, index_map, rs, transcript_length)
    /\ pc' = "translated"
    /\ UNCHANGED <<cigar, transcript_length, re_cigar, k, ref_size, trans_size,
                   transcript_index_map, index_map>>
    /\ UNCHANGED mainVars
    /\ UNCHANGED hgvsVars

Translate ==
    /\ pc = "ready"
    /\ \E q \in -1..transcript_length, rs \in RefStarts : TranslateCoordinate(q, rs)

Next ==
    \/ ReadWellFormed
    \/ ReadRaw
    \/ GetLength
    \/ MakeIndexMapStart
    \/ MakeIndexMapLoop
    \/ MakeIndexMapReturn
    \/ Translate

Spec == Init /\ [][Next]_vars

-----------------------------------------------------------------------------
(* Direct calls of translate_coordinate with an arbitrary index map, as in *)
(* the doctests                                                            *)

MaxEntries == 2
MaxAnchor == 1
MaxAdjust == 2
MaxLength == 3

IndexMapEntries == (-1..MaxAnchor) \X (-MaxAdjust..MaxAdjust)

InitTranslate == Init

\* the index map and the transcript length of a direct call
DirectArguments(im, tlen) ==
    /\ pc = "start"
    /\ index_map' = im
    /\ transcript_length' = tlen
    /\ pc' = "ready"
    /\ UNCHANGED <<cigar, re_cigar, k, ref_size, trans_size, transcript_index_map,
                   ref_start, coordinate_query, ref_coord>>
    /\ UNCHANGED mainVars
    /\ UNCHANGED hgvsVars

ChooseArguments ==
    /\ pc = "start"
    /\ \E n \in 0..MaxEntries :
         \E im \in [1..n -> IndexMapEntries], tlen \in 0..MaxLength : DirectArguments(im, tlen)

NextTranslate ==
    \/ ChooseArguments
    \/ Translate

SpecTranslate == InitTranslate /\ [][NextTranslate]_vars

-----------------------------------------------------------------------------
(* main: the batch run.  A row of a TSV file is a tuple of its fields; a   *)
(* field that main converts with int() is the text of the number.          *)

MaxTranscripts == 2
MaxQueries == 2
MaxQuery == 2

\* int(text) for the text of a decimal integer with an optional minus sign
PyInt(text) == IF Head(text) = "-" THEN -IntOfDigits(Tail(text)) ELSE IntOfDigits(text)

Names == {"T1", "T2"}

\* chromosome, starting position and CIGAR columns of the transcripts file
Alignments ==
    {<<"chr1", ToText(0), Render(<<<<2, "M">>>>)>>,
     <<"chr2", ToText(MaxRefStart), Render(<<<<1, "M">>, <<2, "I">>, <<1, "D">>, <<1, "M">>>>)>>}

TranscriptRows == {<<n, a[1], a[2], a[3]>> : n \in Names, a \in Alignments}

QueryTexts == {<<"-", "1">>} \cup {ToText(n) : n \in 0..MaxQuery}

QueryRows == Names \X QueryTexts

\* Transcript(name=t[0], chromosome=t[1], ref_start=int(t[2]), cigar=t[3],
\*            transcript_length=get_length(t[3]), index_map=make_index_map(t[3]))
Transcript(t) ==
    [name |-> t[1], chromosome |-> t[2], ref_start |-> PyInt(t[3]), cigar |-> t[4],
     transcript_length |-> get_length(t[4]), index_map |-> make_index_map(t[4])]

\* d[key] = value
DictSet(d, key, item) == [n \in DOMAIN d \cup {key} |-> IF n = key THEN item ELSE d[n]]

InitMain == Init

\* the transcripts file is read: list(csv.reader(f, delimiter='\t'))
ReadTranscripts ==
    /\ pc = "start"
    /\ \E n \in 0..MaxTranscripts : transcripts' \in [1..n -> TranscriptRows]
    /\ pc' = "load"
    /\ UNCHANGED <<done_transcripts, transcript_alignments, raw_queries, done_queries,
                   query_output, error>>
    /\ UNCHANGED <<cigar, transcript_length, re_cigar, k, ref_size, trans_size,
                   transcript_index_map, index_map, ref_start, coordinate_query, ref_coord>>
    /\ UNCHANGED hgvsVars

\* one iteration of the loop over the rows of the transcripts file
LoadTranscript ==
    /\ pc = "load"
    /\ done_transcripts < Len(transcripts)
    /\ LET t == transcripts[done_transcripts + 1]
       IN  transcript_alignments' = DictSet(transcript_alignments, t[1], Transcript(t))
    /\ done_transcripts' = done_transcripts + 1
    /\ UNCHANGED <<transcripts, raw_queries, done_queries, query_output, error>>
    /\ UNCHANGED coreVars
    /\ UNCHANGED hgvsVars

\* the queries file is read and the output file opened
ReadQueries ==
    /\ pc = "load"
    /\ done_transcripts = Len(transcripts)
    /\ \E n \in 0..MaxQueries : raw_queries' \in [1..n -> QueryRows]
    /\ pc' = "queries"
    /\ UNCHANGED <<transcripts, done_transcripts, transcript_alignments, done_queries,
                   query_output, error>>
    /\ UNCHANGED <<cigar, transcript_length, re_cigar, k, ref_size, trans_size,
                   transcript_index_map, index_map, ref_start, coordinate_query, ref_coord>>
    /\ UNCHANGED hgvsVars

\* ProcessQuery that skips a query out of range instead of raising
ProcessQuery_skips ==
    /\ pc = "queries"
    /\ done_queries < Len(raw_queries)
    /\ LET transcript_name == raw_queries[done_queries + 1][1]
           query == PyInt(raw_queries[done_queries + 1][2])
       IN  IF transcript_name \notin DOMAIN transcript_alignments
           THEN /\ error' = "KeyError"
                /\ pc' = "halted"
                /\ UNCHANGED <<done_queries, query_output, coordinate_query, ref_start,
                               ref_coord>>
           ELSE LET transcript == transcript_alignments[transcript_name]
                    result == translate_coordinate(query, transcript.index_map,
                                                   transcript.ref_start,
                                                   transcript.transcript_length)
                IN  /\ coordinate_query' = query
                    /\ ref_start' = transcript.ref_start
                    /\ ref_coord' = result
                    /\ query_output' =
                         IF result = None THEN query_output
                         ELSE Append(query_output,
                                     <<transcript_name, query, transcript.chromosome,
                                       result[1]>>)
                    /\ done_queries' = done_queries + 1
                    /\ UNCHANGED <<pc, error>>
    /\ UNCHANGED <<cigar, transcript_length, re_cigar, k, ref_size, trans_size,
                   transcript_index_map, index_map>>
    /\ UNCHANGED <<transcripts, done_transcripts, transcript_alignments, raw_queries>>
    /\ UNCHANGED hgvsVars

\* one iteration of the loop over raw_queries
ProcessQuery ==
    /\ pc = "queries"
    /\ done_queries < Len(raw_queries)
    /\ LET transcript_name == raw_queries[done_queries + 1][1]
           query == PyInt(raw_queries[done_queries + 1][2])
       IN  IF transcript_name \notin DOMAIN transcript_alignments
           THEN /\ error' = "KeyError"
                /\ pc' = "halted"
                /\ UNCHANGED <<done_queries, query_output, coordinate_query, ref_start,
                               ref_coord>>
           ELSE LET transcript == transcript_alignments[transcript_name]
                    result == translate_coordinate(query, transcript.index_map,
                                                   transcript.ref_start,
                                                   transcript.transcript_length)
                IN  /\ coordinate_query' = query
                    /\ ref_start' = transcript.ref_start
                    /\ ref_coord' = result
                    /\ IF result = None
                       THEN /\ error' = "ValueError"
                            /\ pc' = "halted"
                            /\ UNCHANGED <<done_queries, query_output>>
                       ELSE /\ query_output' =
                                 Append(query_output,
                                        <<transcript_name, query, transcript.chromosome,
                                          result[1]>>)
                            /\ done_queries' = done_queries + 1
                            /\ UNCHANGED <<pc, error>>
    /\ UNCHANGED <<cigar, transcript_length, re_cigar, k, ref_size, trans_size,
                   transcript_index_map, index_map>>
    /\ UNCHANGED <<transcripts, done_transcripts, transcript_alignments, raw_queries>>
    /\ UNCHANGED hgvsVars

\* the loop is over: the output file is closed and main returns
MainReturn ==
    /\ pc = "queries"
    /\ done_queries = Len(raw_queries)
    /\ pc' = "done"
    /\ UNCHANGED <<cigar, transcript_length, re_cigar, k, ref_size, trans_size,
                   transcript_index_map, index_map, ref_start, coordinate_query, ref_coord>>
    /\ UNCHANGED mainVars
    /\ UNCHANGED hgvsVars

NextMain ==
    \/ ReadTranscripts
    \/ LoadTranscript
    \/ ReadQueries
    \/ ProcessQuery
    \/ MainReturn

SpecMain == InitMain /\ [][NextMain]_vars

-----------------------------------------------------------------------------
(* hgvs_annotations.py.  A value of a decoded JSON document is a record:   *)
(* type is the name of its Python type, int the number of an int, str the  *)
(* text of a str, entries the (key, value) pairs of a dict in insertion    *)
(* order and elements the elements of a list.                              *)

\* values (containers and scalars together) of a generated annotation
MaxNodes == 5
\* len(keys_of_interest)
MaxKeys == 2

JInt(n) == [type |-> "int", int |-> n, str |-> <<>>, entries |-> <<>>, elements |-> <<>>]
JStr(s) == [type |-> "str", int |-> 0, str |-> s, entries |-> <<>>, elements |-> <<>>]
JNone == [type |-> "NoneType", int |-> 0, str |-> <<>>, entries |-> <<>>, elements |-> <<>>]
JList(elements) ==
    [type |-> "list", int |-> 0, str |-> <<>>, entries |-> <<>>, elements |-> elements]
JDict(entries) ==
    [type |-> "dict", int |-> 0, str |-> <<>>, entries |-> entries, elements |-> <<>>]

\* isinstance(v, (list, dict))
IsContainer(v) == v.type \in {"list", "dict"}

RECURSIVE find_my_keys(_, _)

\* DictItem that yields the value of every entry under the key, container or not
DictItem_any_value(key, item) ==
    IF item[1] = key THEN <<item[2]>> ELSE find_my_keys(key, item[2])

\* the body of 'for k, v in data.items()' for the item (k, v)
DictItem(key, item) ==
    IF ~IsContainer(item[2]) /\ item[1] = key THEN <<item[2]>>
    ELSE find_my_keys(key, item[2])

\* for k, v in data.items(): ...
RECURSIVE DictLoop(_, _)
DictLoop(key, items) ==
    IF Len(items) = 0 THEN <<>>
    ELSE DictItem(key, Head(items)) \o DictLoop(key, Tail(items))

\* for subelement in data: yield from find_my_keys(key, subelement)
RECURSIVE ListLoop(_, _)
ListLoop(key, elements) ==
    IF Len(elements) = 0 THEN <<>>
    ELSE find_my_keys(key, Head(elements)) \o ListLoop(key, Tail(elements))

\* list(find_my_keys(key, data))
find_my_keys(key, data) ==
    IF data.type = "dict" THEN DictLoop(key, data.entries)
    ELSE IF data.type = "list" THEN ListLoop(key, data.elements)
    ELSE <<>>

\* key in annotation
HasKey(d, key) == \E n \in 1..Len(d.entries) : d.entries[n][1] = key

\* annotation[key]
GetItem(d, key) == d.entries[CHOOSE n \in 1..Len(d.entries) : d.entries[n][1] = key][2]

\* 'NA'
NA == JStr(<<"N", "A">>)

\* DecodedValue that takes any top-level value under the key, container or not
DecodedValue_any_top(ann, key, found) ==
    IF HasKey(ann, key) THEN GetItem(ann, key)
    ELSE IF Len(found) = 0 THEN NA
    ELSE JList(found)

\* the value that the if/elif/else stores in decoded_annotation[key]
DecodedValue(ann, key, found) ==
    IF HasKey(ann, key) /\ ~IsContainer(GetItem(ann, key)) THEN GetItem(ann, key)
    ELSE IF Len(found) = 0 THEN NA
    ELSE JList(found)

(* Inputs: the annotations of at most MaxNodes values over two scalars and *)
(* two dict keys, and the keys of interest                                 *)

ScalarValues == {JInt(1), JStr(<<"7">>)}
DictKeys == {"A", "B"}
\* a key that annotations hold and a key that none holds
SearchKeys == {"A", "X"}

\* the key sequences of a dict: no key twice
KeySeqs ==
    {ks \in UNION {[1..m -> DictKeys] : m \in 0..Cardinality(DictKeys)} :
        \A i, j \in DOMAIN ks : i # j => ks[i] # ks[j]}

RECURSIVE ValuesOfSize(_), ElementsOfSize(_), ElementsFrom(_, _)

\* the sequences of values of n nodes altogether whose first value has at
\* least a nodes
ElementsFrom(n, a) ==
    IF a > n THEN {}
    ELSE {<<v>> \o rest : v \in ValuesOfSize(a), rest \in ElementsOfSize(n - a)}
             \cup ElementsFrom(n, a + 1)

ElementsOfSize(n) == IF n = 0 THEN {<<>>} ELSE ElementsFrom(n, 1)

\* the item sequences of the dicts whose values have n nodes altogether
EntriesOfSize(n) ==
    {[m \in DOMAIN p[1] |-> <<p[1][m], p[2][m]>>] :
        p \in {q \in KeySeqs \X ElementsOfSize(n) : Len(q[1]) = Len(q[2])}}

ValuesOfSize(n) ==
    (IF n = 1 THEN ScalarValues ELSE {})
        \cup {JList(e) : e \in ElementsOfSize(n - 1)}
        \cup {JDict(e) : e \in EntriesOfSize(n - 1)}

\* the variables of the translator and of main but pc
otherVars == <<cigar, transcript_length, re_cigar, k, ref_size, trans_size,
               transcript_index_map, index_map, ref_start, coordinate_query, ref_coord,
               transcripts, done_transcripts, transcript_alignments, raw_queries,
               done_queries, query_output, error>>
tsvVars == <<transformed_annotations, col_headers, sorted_queries, done_rows, output_table>>

InitAnnotations == Init

\* transform_ensembl_annotations is called: decoded_annotation = {}
TransformCall(ann, keys) ==
    /\ pc = "start"
    /\ annotation' = ann
    /\ keys_of_interest' = keys
    /\ decoded_annotation' = <<>>
    /\ pc' = "transform"
    /\ UNCHANGED <<done_keys, value>>
    /\ UNCHANGED tsvVars
    /\ UNCHANGED otherVars

ReadAnnotation ==
    /\ pc = "start"
    /\ \E n \in 0..(MaxNodes - 1) : \E e \in EntriesOfSize(n) :
         \E m \in 0..MaxKeys : \E keys \in [1..m -> SearchKeys] :
             TransformCall(JDict(e), keys)

\* one iteration of 'for key in keys_of_interest'
TransformKey ==
    /\ pc = "transform"
    /\ done_keys < Len(keys_of_interest)
    /\ LET key == keys_of_interest[done_keys + 1]
           found == find_my_keys(key, annotation)
       IN  /\ value' = found
           /\ decoded_annotation' =
                DictSet(decoded_annotation, key, DecodedValue(annotation, key, found))
    /\ done_keys' = done_keys + 1
    /\ UNCHANGED <<pc, annotation, keys_of_interest>>
    /\ UNCHANGED tsvVars
    /\ UNCHANGED otherVars

\* return decoded_annotation
TransformReturn ==
    /\ pc = "transform"
    /\ done_keys = Len(keys_of_interest)
    /\ pc' = "transformed"
    /\ UNCHANGED <<annotation, keys_of_interest, done_keys, value, decoded_annotation>>
    /\ UNCHANGED tsvVars
    /\ UNCHANGED otherVars

NextAnnotations ==
    \/ ReadAnnotation
    \/ TransformKey
    \/ TransformReturn

SpecAnnotations == InitAnnotations /\ [][NextAnnotations]_vars

-----------------------------------------------------------------------------
(* make_transformed_annotations_tsv.  A text is a sequence of characters;  *)
(* the TSV file is the sequence of the rows handed to csv.writer.writerow, *)
(* a row being the sequence of its cells.                                  *)

\* queries in transformed_annotations
MaxRows == 2
\* len(col_headers)
MaxHeaders == 2

\* the characters of the texts, in code point order
Alphabet ==
    <<",", "0", "1", "2", "3", "4", "5", "6", "7", "8", "9", "A", "B", "N",
      "a", "b", "e", "n", "o", "q", "r", "u", "y">>

\* ord(c)
Ord(c) == CHOOSE n \in 1..Len(Alphabet) : Alphabet[n] = c

\* s < t for two str
StrLess(s, t) ==
    \E n \in 1..Len(t) :
        /\ \A m \in 1..(n - 1) : m <= Len(s) /\ s[m] = t[m]
        /\ \/ n = Len(s) + 1
           \/ n <= Len(s) /\ Ord(s[n]) < Ord(t[n])

\* x put into the ascending list s, after the elements that are not larger
Insert(s, x) ==
    LET before == SelectSeq(s, LAMBDA y : ~StrLess(x, y))
        after == SelectSeq(s, LAMBDA y : StrLess(x, y))
    IN  before \o <<x>> \o after

\* sorted(s) for a list of str
RECURSIVE Sorted(_)
Sorted(s) == IF Len(s) = 0 THEN <<>> ELSE Insert(Sorted(SubSeq(s, 1, Len(s) - 1)), s[Len(s)])

\* str(v) for a non-container value
Str(v) ==
    IF v.type = "int" THEN ToText(v.int)
    ELSE IF v.type = "str" THEN v.str
    ELSE <<"N", "o", "n", "e">>

\* {str(found) for found in value}, as a list without repetitions
RECURSIVE StrSet(_)
StrSet(elements) ==
    IF Len(elements) = 0 THEN <<>>
    ELSE LET rest == StrSet(SubSeq(elements, 1, Len(elements) - 1))
             last == Str(elements[Len(elements)])
         IN  IF \E n \in 1..Len(rest) : rest[n] = last THEN rest ELSE Append(rest, last)

\* ','.join(parts)
RECURSIVE Join(_)
Join(parts) ==
    IF Len(parts) = 0 THEN <<>>
    ELSE IF Len(parts) = 1 THEN parts[1]
    ELSE parts[1] \o <<",">> \o Join(Tail(parts))

\* the cells that one pass of 'for key in col_headers' appends for value
CellsOf(v) ==
    IF v.type \in {"str", "int", "float"} THEN <<Str(v)>>
    ELSE IF v.type = "list" THEN <<Join(Sorted(StrSet(v.elements)))>>
    ELSE <<>>

\* writable_output after the loop over the column headers
RECURSIVE WritableOutput(_, _, _)
WritableOutput(hgvs, extract, headers) ==
    IF Len(headers) = 0 THEN <<hgvs>>
    ELSE WritableOutput(hgvs, extract, SubSeq(headers, 1, Len(headers) - 1))
             \o CellsOf(extract[headers[Len(headers)]])

\* transformed_annotations[hgvs], the dict being a list of (key, value) items
Extract(hgvs) ==
    transformed_annotations[CHOOSE n \in 1..Len(transformed_annotations) :
                                transformed_annotations[n][1] = hgvs][2]

(* Inputs: query strings, column keys and the values that                  *)
(* transform_ensembl_annotations stores: a top-level non-container value   *)
(* of the JSON document (an int, a str, None for null), 'NA', or a list of *)
(* non-container values                                                    *)

HgvsStrings == {<<"a">>, <<"a", "b">>, <<"B">>}
ColumnKeys == {<<"a">>, <<"b">>}
TransformedValues ==
    {JInt(10), JNone, NA, JList(<<JStr(<<"9">>), JInt(10), JInt(9)>>)}

InitTsv == Init

\* make_transformed_annotations_tsv is called: the header row is written
\* and the queries are sorted
TsvCall(ta, headers) ==
    /\ pc = "start"
    /\ transformed_annotations' = ta
    /\ col_headers' = headers
    /\ output_table' = <<<<<<"q", "u", "e", "r", "y">>>> \o headers>>
    /\ sorted_queries' = Sorted([n \in 1..Len(ta) |-> ta[n][1]])
    /\ pc' = "tsv"
    /\ UNCHANGED <<done_rows, annotation, keys_of_interest, done_keys, value,
                   decoded_annotation>>
    /\ UNCHANGED otherVars

ReadTransformed ==
    /\ pc = "start"
    /\ \E n \in 0..MaxRows : \E m \in 0..MaxHeaders :
         \E queries \in {q \in [1..n -> HgvsStrings] :
                            \A i, j \in 1..n : i # j => q[i] # q[j]} :
           \E extracts \in [1..n -> [ColumnKeys -> TransformedValues]] :
             \E headers \in [1..m -> ColumnKeys] :
               TsvCall([i \in 1..n |-> <<queries[i], extracts[i]>>], headers)

\* one iteration of 'for hgvs in sorted_queries'
WriteRow ==
    /\ pc = "tsv"
    /\ done_rows < Len(sorted_queries)
    /\ LET hgvs == sorted_queries[done_rows + 1]
       IN  output_table' = Append(output_table, WritableOutput(hgvs, Extract(hgvs), col_headers))
    /\ done_rows' = done_rows + 1
    /\ UNCHANGED <<pc, transformed_annotations, col_headers, sorted_queries>>
    /\ UNCHANGED <<annotation, keys_of_interest, done_keys, value, decoded_annotation>>
    /\ UNCHANGED otherVars

\* the loop is over and the file is closed
TsvReturn ==
    /\ pc = "tsv"
    /\ done_rows = Len(sorted_queries)
    /\ pc' = "written"
    /\ UNCHANGED hgvsVars
    /\ UNCHANGED otherVars

NextTsv ==
    \/ ReadTransformed
    \/ WriteRow
    \/ TsvReturn

SpecTsv == InitTsv /\ [][NextTsv]_vars

-----------------------------------------------------------------------------
(* Vocabulary of the properties: the layout of a CIGAR along the transcript *)

TranscriptCodes == {"M", "I", "S", "=", "X"}
MatchCodes == {"M", "=", "X"}
InsertCodes == {"I", "S"}
DeleteCodes == {"D", "N"}

Positions(s) == [n \in 1..Len(s) |-> n]

SizeIf(o, codes) == IF o[2] \in codes THEN o[1] ELSE 0

\* sum of the lengths of the operators before the j-th whose code is in codes
SizeBefore(ops, j, codes) == SumSeq([n \in 1..(j - 1) |-> SizeIf(ops[n], codes)])

\* the operator whose run holds transcript index q
Covers(ops, j, q) ==
    /\ ops[j][2] \in TranscriptCodes
    /\ SizeBefore(ops, j, TranscriptCodes) <= q
    /\ q < SizeBefore(ops, j, TranscriptCodes) + ops[j][1]

InRunOf(ops, q, codes) == \E j \in 1..Len(ops) : Covers(ops, j, q) /\ ops[j][2] \in codes

RunOf(ops, q) == CHOOSE j \in 1..Len(ops) : Covers(ops, j, q)

StartsWithIndel(ops) == ops # <<>> /\ ops[1][2] \in {"I", "D"}

Translated == pc = "translated"

InRange == 0 <= coordinate_query /\ coordinate_query < transcript_length

-----------------------------------------------------------------------------
(* C1 *)

\* C1: translate_coordinate returns None exactly when the query is negative
\* or not below transcript_length, and an integer otherwise, whatever the
\* index map is.
C1_NotFoundIffOutOfRange ==
    Translated =>
        /\ ref_coord = None <=> (coordinate_query < 0 \/ coordinate_query >= transcript_length)
        /\ ref_coord # None => Len(ref_coord) = 1 /\ ref_coord[1] \in Int

C1_Witness_QueryAtLength ==
    /\ Translated
    /\ coordinate_query = transcript_length
    /\ transcript_length > 0
    /\ Len(index_map) = 2
    /\ ref_coord = None

-----------------------------------------------------------------------------
(* C2 *)

\* the nearest (mis)match position upstream of q, when there is one
HasUpstreamMatch(ops, q) == \E p \in 0..(q - 1) : InRunOf(ops, p, MatchCodes)

UpstreamMatch(ops, q) ==
    CHOOSE p \in 0..(q - 1) :
        /\ InRunOf(ops, p, MatchCodes)
        /\ \A r \in (p + 1)..(q - 1) : ~InRunOf(ops, r, MatchCodes)

\* C2: a query inside an insertion-like run (I or S) of a CIGAR that does not
\* begin with I or D translates to the coordinate of the nearest upstream
\* (mis)match position.  (Stated for the queries that have such a position.)
C2_InsertionsLeftAligned ==
    (/\ Translated
     /\ InRange
     /\ ~StartsWithIndel(re_cigar)
     /\ InRunOf(re_cigar, coordinate_query, InsertCodes)
     /\ HasUpstreamMatch(re_cigar, coordinate_query))
    => ref_coord = translate_coordinate(UpstreamMatch(re_cigar, coordinate_query),
                                        index_map, ref_start, transcript_length)

-----------------------------------------------------------------------------
(* C3 *)

\* C3: a query inside an M, = or X run of a CIGAR that does not begin with I
\* or D translates to ref_start + query + (lengths of the D/N operators before
\* the run) - (lengths of the I/S operators before the run); with an empty
\* index map that is ref_start + query.
C3_MatchRegionsOneToOne ==
    (/\ Translated
     /\ InRange
     /\ ~StartsWithIndel(re_cigar)
     /\ InRunOf(re_cigar, coordinate_query, MatchCodes))
    => LET j == RunOf(re_cigar, coordinate_query)
       IN  /\ ref_coord = Value(ref_start + coordinate_query
                                + SizeBefore(re_cigar, j, DeleteCodes)
                                - SizeBefore(re_cigar, j, InsertCodes))
           /\ index_map = <<>> => ref_coord = Value(ref_start + coordinate_query)

C3_Witness_MatchAfterIndels ==
    /\ Translated
    /\ InRange
    /\ ~StartsWithIndel(re_cigar)
    /\ InRunOf(re_cigar, coordinate_query, MatchCodes)
    /\ SizeBefore(re_cigar, RunOf(re_cigar, coordinate_query), DeleteCodes) > 0
    /\ SizeBefore(re_cigar, RunOf(re_cigar, coordinate_query), InsertCodes) > 0
    /\ ref_start > 0

-----------------------------------------------------------------------------
(* C4 *)

\* C4: for a CIGAR that does not begin with I or D and has a transcript of
\* length > 0, transcript index 0 translates to ref_start.
C4_IndexZeroIsRefStart ==
    (/\ Translated
     /\ ~StartsWithIndel(re_cigar)
     /\ transcript_length > 0
     /\ coordinate_query = 0)
    => ref_coord = Value(ref_start)

-----------------------------------------------------------------------------
(* C5 *)

NonDecreasingAnchors(im) == \A n \in 1..(Len(im) - 1) : im[n][1] <= im[n + 1][1]

\* C5: the entries of the index map are ordered by non-decreasing
\* anchor_index, after every operator the loop has processed and in the map
\* it returns.
C5_AnchorsNonDecreasing ==
    /\ NonDecreasingAnchors(transcript_index_map)
    /\ NonDecreasingAnchors(index_map)

C5_Witness_TwoAnchors ==
    /\ pc = "loop"
    /\ k = Len(re_cigar)
    /\ Len(transcript_index_map) = 3
    /\ transcript_index_map[1][1] = transcript_index_map[2][1]
    /\ transcript_index_map[2][1] < transcript_index_map[3][1]

-----------------------------------------------------------------------------
(* C6 *)

IndelCodes == DeleteCodes \cup InsertCodes

\* the positions, in order, of the operators that must have an entry
IndelPositions(ops) == SelectSeq(Positions(ops), LAMBDA j : ops[j][2] \in IndelCodes)

\* the entry the j-th operator must have
EntryOf(ops, j) ==
    <<SizeBefore(ops, j, TranscriptCodes) - 1,
      IF ops[j][2] \in DeleteCodes THEN ops[j][1] ELSE -ops[j][1]>>

EntriesOf(ops) == [n \in 1..Len(IndelPositions(ops)) |-> EntryOf(ops, IndelPositions(ops)[n])]

IsClipOrPad(o) == o[2] \in {"H", "P"}
NotClipOrPad(o) == ~IsClipOrPad(o)

\* C6: after every iteration of the loop, and when it returns, the map holds exactly one entry per
\* D, N, I or S operator processed, in operator order: (t - 1, +n) for D/N and
\* (t - 1, -n) for I/S, t the sum of the lengths of the M, =, X, I, S
\* operators before it; the counters count only M,=,X,I,S (transcript) and
\* M,=,X,D,N (reference), so H and P move nothing, and the map of the CIGAR
\* without its H and P operators is the same map.
C6_OneEntryPerIndel ==
    pc \in {"loop", "ready"} =>
        LET done == SubSeq(re_cigar, 1, k)
        IN  /\ transcript_index_map = EntriesOf(done)
            /\ trans_size = SizeBefore(done, k + 1, TranscriptCodes)
            /\ ref_size = SizeBefore(done, k + 1, MatchCodes \cup DeleteCodes)
            /\ pc # "loop" =>
                  /\ index_map = EntriesOf(re_cigar)
                  /\ index_map = make_index_map(Render(SelectSeq(re_cigar, NotClipOrPad)))

C6_Witness_EntriesAndInertOperators ==
    /\ pc = "ready"
    /\ Len(re_cigar) = 4
    /\ \E j \in 1..Len(re_cigar) : IsClipOrPad(re_cigar[j])
    /\ Len(index_map) = 2
    /\ index_map[1][2] > 0
    /\ index_map[2][2] < 0
    /\ index_map[1][1] >= 0

-----------------------------------------------------------------------------
(* C7 *)

\* the position right after the last recognized operator of s (0 when s has
\* none): what follows it is the trailing garbage
IsOperatorEnd(s, j) == j >= 2 /\ s[j] \in OperatorCodes /\ s[j - 1] \in DigitChars

LastOperatorEnd(s) ==
    IF \E j \in 1..Len(s) : IsOperatorEnd(s, j)
    THEN CHOOSE j \in 1..Len(s) :
            IsOperatorEnd(s, j) /\ \A m \in (j + 1)..Len(s) : ~IsOperatorEnd(s, m)
    ELSE 0

\* C7: when get_length(cigar) returns, its value is the sum of the lengths
\* of the parsed operators with a code in {M, I, S, =, X}, which is the final
\* trans_size of
\* make_index_map when it returns, and it is the length of the string cut
\* after its last recognized operator: the characters after it change nothing.
C7_LengthIsTranscriptSum ==
    /\ pc = "get_length_done" =>
          /\ transcript_length
               = SizeBefore(cigar_to_operators(cigar), Len(cigar_to_operators(cigar)) + 1,
                            TranscriptCodes)
          /\ transcript_length = get_length(SubSeq(cigar, 1, LastOperatorEnd(cigar)))
    /\ pc = "ready" => transcript_length = trans_size

C7_Witness_TrailingGarbage ==
    /\ pc = "ready"
    /\ transcript_length > 0
    /\ LastOperatorEnd(cigar) < Len(cigar)
    /\ LastOperatorEnd(cigar) + 2 = Len(cigar)
    /\ cigar[Len(cigar) - 1] \notin DigitChars
    /\ cigar[Len(cigar)] \in DigitChars

-----------------------------------------------------------------------------
(* C8 *)

RECURSIVE Power10(_)
Power10(n) == IF n = 0 THEN 1 ELSE 10 * Power10(n - 1)

\* the first position of the maximal digit run that ends right before j
RunStart(s, j) ==
    CHOOSE i \in 1..(j - 1) :
        /\ \A m \in i..(j - 1) : s[m] \in DigitChars
        /\ i = 1 \/ s[i - 1] \notin DigitChars

\* the integer the digits s[i..j-1] write
RunValue(s, i, j) == SumSeq([n \in 1..(j - i) |-> DigitValue(s[i + n - 1]) * Power10(j - i - n)])

OperatorEnds(s) == SelectSeq(Positions(s), LAMBDA j : IsOperatorEnd(s, j))

\* one pair per maximal digit run immediately followed by an operator code
PairsOf(s) ==
    [n \in 1..Len(OperatorEnds(s)) |->
        LET j == OperatorEnds(s)[n]
        IN  <<RunValue(s, RunStart(s, j), j), s[j]>>]

\* C8: cigar_to_operators returns, left to right, exactly one (length, code)
\* pair for every maximal run of digits immediately followed by one of
\* M,I,D,N,S,H,P,=,X, the length being the value of the whole run; every
\* other character contributes nothing; a string without such a run gives
\* the empty sequence.
C8_ParserExtractsOperatorRuns ==
    pc = "loop" =>
        /\ re_cigar = PairsOf(cigar)
        /\ (\A j \in 1..Len(cigar) : ~IsOperatorEnd(cigar, j)) => re_cigar = <<>>

C8_Witness_GarbageAroundOperators ==
    /\ pc = "loop"
    /\ Len(cigar) = 4
    /\ cigar[1] \notin DigitChars
    /\ cigar[2] \in DigitChars
    /\ cigar[3] \in DigitChars
    /\ Len(re_cigar) = 1
    /\ re_cigar[1][1] >= 10

-----------------------------------------------------------------------------
(* C9 *)

\* C9: every operator pair the parser produces has a positive length and a
\* code in {M,I,D,N,S,H,P,=,X}, and every index-map entry has a non-zero
\* adjustment, positive for D/N and negative for I/S.
C9_LengthsPositive ==
    /\ \A j \in 1..Len(re_cigar) : re_cigar[j][1] > 0 /\ re_cigar[j][2] \in OperatorCodes
    /\ \A n \in 1..Len(transcript_index_map) : transcript_index_map[n][2] # 0

-----------------------------------------------------------------------------
(* C10 *)

\* the row of the transcripts file that the name stands for once every row
\* is loaded: the last one with that name
IsLoaded(name) == \E n \in 1..Len(transcripts) : transcripts[n][1] = name

RowOf(name) ==
    transcripts[CHOOSE n \in 1..Len(transcripts) :
                    /\ transcripts[n][1] = name
                    /\ \A m \in (n + 1)..Len(transcripts) : transcripts[m][1] # name]

CoordinateOf(n) == PyInt(raw_queries[n][2])

TranslationOf(n) ==
    LET t == RowOf(raw_queries[n][1])
    IN  translate_coordinate(CoordinateOf(n), make_index_map(t[4]), PyInt(t[3]),
                             get_length(t[4]))

QueryFails(n) == ~IsLoaded(raw_queries[n][1]) \/ TranslationOf(n) = None

\* the first query that fails, or one past the last query
FirstFailure ==
    CHOOSE n \in 1..(Len(raw_queries) + 1) :
        /\ n <= Len(raw_queries) => QueryFails(n)
        /\ \A m \in 1..(n - 1) : ~QueryFails(m)

ExpectedRow(n) ==
    <<raw_queries[n][1], CoordinateOf(n), RowOf(raw_queries[n][1])[2], TranslationOf(n)[1]>>

\* C10: the batch loop is fail-fast.  While it runs, the rows written are the
\* rows of the queries consumed, in query order, and no failing query has
\* been passed; it halts with an error exactly at the first query whose
\* name is not loaded or whose coordinate is out of range, having written the
\* rows of the queries before it and nothing else; it returns only when no
\* query fails, with one row per query.
C10_BatchFailFast ==
    pc \in {"queries", "halted", "done"} =>
        /\ done_queries < FirstFailure
        /\ query_output = [n \in 1..done_queries |-> ExpectedRow(n)]
        /\ pc = "halted" =>
              /\ done_queries + 1 = FirstFailure
              /\ FirstFailure <= Len(raw_queries)
              /\ error = IF IsLoaded(raw_queries[FirstFailure][1])
                         THEN "ValueError" ELSE "KeyError"
        /\ pc = "done" =>
              /\ FirstFailure = Len(raw_queries) + 1
              /\ Len(query_output) = Len(raw_queries)
              /\ error = "none"

C10_Witness_HaltBeforeValidQuery ==
    /\ pc = "halted"
    /\ Len(raw_queries) = 2
    /\ FirstFailure = 1
    /\ ~QueryFails(2)
    /\ query_output = <<>>

-----------------------------------------------------------------------------
(* Vocabulary of the annotation properties: the nodes of a nested value by *)
(* their paths.  A path is the sequence of the positions taken from the    *)
(* top: the position of an item in its dict or of an element in its list.  *)

\* the values directly inside a container, in iteration order
Children(v) ==
    IF v.type = "dict" THEN [n \in 1..Len(v.entries) |-> v.entries[n][2]] ELSE v.elements

RECURSIVE PathsOf(_)
PathsOf(v) ==
    UNION {{<<n>>} \cup {<<n>> \o p : p \in PathsOf(Children(v)[n])} :
              n \in 1..Len(Children(v))}

RECURSIVE NodeAt(_, _)
NodeAt(v, p) == IF Len(p) = 0 THEN v ELSE NodeAt(Children(v)[Head(p)], Tail(p))

\* the container that holds the node at path p
ParentAt(v, p) == NodeAt(v, SubSeq(p, 1, Len(p) - 1))

\* the node at p is a non-container value stored in a dict under the key
IsHit(key, data, p) ==
    /\ ParentAt(data, p).type = "dict"
    /\ ParentAt(data, p).entries[p[Len(p)]][1] = key
    /\ ~IsContainer(NodeAt(data, p))

Hits(key, data) == {p \in PathsOf(data) : IsHit(key, data, p)}

\* p comes before q in a depth-first walk
Before(p, q) ==
    \E n \in 1..Len(p) :
        /\ n <= Len(q)
        /\ p[n] < q[n]
        /\ \A m \in 1..(n - 1) : p[m] = q[m]

\* the top-level items under the key with a non-container value
TopLevel(key) ==
    {n \in 1..Len(annotation.entries) :
        annotation.entries[n][1] = key /\ ~IsContainer(annotation.entries[n][2])}

Occurrences(s, x) == Cardinality({n \in 1..Len(s) : s[n] = x})

-----------------------------------------------------------------------------
(* C11 *)
\* C11: transform_ensembl_annotations returns a mapping whose key set is
\* exactly the requested keys; under each key it holds annotation[key] when
\* that is a top-level non-container value, otherwise 'NA' when no dict
\* entry under the key holds a non-container value at any depth, otherwise
\* the list of all the non-container values found under the key.
C11_TransformedValues ==
    pc = "transformed" =>
        /\ DOMAIN decoded_annotation =
               {keys_of_interest[n] : n \in 1..Len(keys_of_interest)}
        /\ \A key \in DOMAIN decoded_annotation :
               LET out == decoded_annotation[key]
                   hits == Hits(key, annotation)
               IN  IF TopLevel(key) # {}
                   THEN \E n \in TopLevel(key) : out = annotation.entries[n][2]
                   ELSE IF hits = {} THEN out = JStr(<<"N", "A">>)
                   ELSE /\ out.type = "list"
                        /\ Len(out.elements) = Cardinality(hits)
                        /\ \A p \in hits :
                               Occurrences(out.elements, NodeAt(annotation, p))
                                   = Cardinality({q \in hits : NodeAt(annotation, q)
                                                                  = NodeAt(annotation, p)})

\* "A" is a top-level key whose value is a container: the two values nested
\* under "A" come back as a list, and "X", which occurs nowhere, gives 'NA'
C11_Witness_NestedListAndNA ==
    /\ pc = "transformed"
    /\ keys_of_interest = <<"A", "X">>
    /\ HasKey(annotation, "A")
    /\ TopLevel("A") = {}
    /\ Cardinality(Hits("A", annotation)) = 2
    /\ decoded_annotation["A"].type = "list"
    /\ Len(decoded_annotation["A"].elements) = 2
    /\ decoded_annotation["X"] = JStr(<<"N", "A">>)

-----------------------------------------------------------------------------
(* C12 *)
\* C12: find_my_keys(key, data) yields the non-container values stored in a
\* dict under the key at any depth, each once, in the order of a depth-first
\* walk (dict items in insertion order, list elements in list order); the
\* walk enters every list and dict whatever key it is stored under; nothing
\* is yielded when no such value exists.
C12_YieldsHitsDepthFirst ==
    (pc = "transform" /\ done_keys > 0) =>
        LET key == keys_of_interest[done_keys]
            hits == Hits(key, annotation)
        IN  /\ Len(value) = Cardinality(hits)
            /\ \A p \in hits :
                   value[1 + Cardinality({q \in hits : Before(q, p)})] = NodeAt(annotation, p)

\* two values at different depths, the deeper one first and inside a
\* container that is itself stored under the search key
C12_Witness_NestedUnderSearchKey ==
    /\ pc = "transform"
    /\ done_keys > 0
    /\ LET key == keys_of_interest[done_keys]
       IN  \E p, q \in Hits(key, annotation) :
               /\ Before(p, q)
               /\ Len(p) > Len(q)
               /\ annotation.entries[p[1]][1] = key
               /\ value = <<NodeAt(annotation, p), NodeAt(annotation, q)>>
               /\ value[1] # value[2]

-----------------------------------------------------------------------------
(* C13 *)
\* the text of rank n (1 the smallest) of a set of texts
TextOfRank(S, n) == CHOOSE x \in S : Cardinality({y \in S : StrLess(y, x)}) = n - 1

\* the cell the claim gives to a value: the string form of a scalar, the
\* comma-joined ascending distinct string forms of the elements of a list
ClaimedCell(v) ==
    IF v.type = "list"
    THEN LET forms == {Str(v.elements[n]) : n \in 1..Len(v.elements)}
         IN  Join([n \in 1..Cardinality(forms) |-> TextOfRank(forms, n)])
    ELSE Str(v)

\* C13: the table is the header row ['query'] + col_headers followed by
\* exactly one row per key of transformed_annotations, in ascending key
\* order; a data row is the query followed by exactly one cell per column
\* header, in header order: a scalar as its string form, a list as the
\* comma-joined, sorted, de-duplicated string forms of its elements.
C13_OneRowPerQueryOneCellPerHeader ==
    pc = "written" =>
        /\ output_table[1] = <<<<"q", "u", "e", "r", "y">>>> \o col_headers
        /\ Len(output_table) = 1 + Len(transformed_annotations)
        /\ {output_table[n][1] : n \in 2..Len(output_table)}
               = {transformed_annotations[n][1] : n \in 1..Len(transformed_annotations)}
        /\ \A n \in 2..(Len(output_table) - 1) :
               StrLess(output_table[n][1], output_table[n + 1][1])
        /\ \A n \in 2..Len(output_table) :
               /\ Len(output_table[n]) = 1 + Len(col_headers)
               /\ \A c \in 1..Len(col_headers) :
                      output_table[n][c + 1]
                          = ClaimedCell(Extract(output_table[n][1])[col_headers[c]])

-----------------------------------------------------------------------------
(* C14 *)

PositiveLengths(ops) == \A j \in 1..Len(ops) : ops[j][1] > 0

\* C14: translation is monotone: for a CIGAR whose operators have positive
\* lengths and that does not begin with I or D, a query q1 in
\* 0..transcript_length-1 never translates to a larger reference coordinate
\* than a later query q2 of the same range, with the same index map,
\* reference start and transcript length.
C14_TranslationMonotone ==
    (Translated /\ InRange /\ PositiveLengths(re_cigar) /\ ~StartsWithIndel(re_cigar)) =>
        \A q2 \in (coordinate_query + 1)..(transcript_length - 1) :
            ref_coord[1]
                <= translate_coordinate(q2, index_map, ref_start, transcript_length)[1]

\* the query lies in an insertion of two bases or more, where the
\* left-alignment correction is not zero, after a deletion; a later query
\* in the next match translates to a larger coordinate
C14_Witness_InsertionAfterDeletion ==
    /\ Translated
    /\ InRange
    /\ PositiveLengths(re_cigar)
    /\ ~StartsWithIndel(re_cigar)
    /\ InRunOf(re_cigar, coordinate_query, {"I"})
    /\ re_cigar[RunOf(re_cigar, coordinate_query)][1] >= 2
    /\ \E n \in 1..Len(index_map) : index_map[n][2] > 0
    /\ LeftAlign(coordinate_query, MappedAdjusts(coordinate_query, index_map)) > 0
    /\ \E q2 \in (coordinate_query + 1)..(transcript_length - 1) :
           /\ InRunOf(re_cigar, q2, MatchCodes)
           /\ ref_coord[1]
                  < translate_coordinate(q2, index_map, ref_start, transcript_length)[1]

====
